---- MODULE Spec2Model ----
(***************************************************************************)
(* Model of add_ids_to_pictos.py: the annotator add_ids_to_pictos and the  *)
(* driver main, over a file system of JSON texts.                          *)
(*                                                                         *)
(* A file's content is a sequence of JSON tokens (the text); json.load and *)
(* json.dump are the operators Loads and Dumps between texts and Python    *)
(* values.  Numbers are integers, strings are atoms; true/false and floats *)
(* are left out of the input domain.                                       *)
(***************************************************************************)
EXTENDS Integers, Sequences, FiniteSets, TLC

(* ------------------------------ bounds -------------------------------- *)

\* longest root list of an input document
MaxLen == 2
\* most members written in one input object (duplicate keys included)
MaxMembers == 2

(* --------------------------- Python values ---------------------------- *)

\* every value has the same fields, so that any two values can be compared
PyVal(kind, s, n, keys, items) ==
    [kind |-> kind, s |-> s, n |-> n, keys |-> keys, items |-> items]

PyNone == PyVal("NoneType", "", 0, <<>>, <<>>)
PyInt(n) == PyVal("int", "", n, <<>>, <<>>)
PyStr(s) == PyVal("str", s, 0, <<>>, <<>>)
PyList(items) == PyVal("list", "", 0, <<>>, items)
\* a dict keeps its keys in insertion order; items[j] is the value of keys[j]
PyDict(keys, items) == PyVal("dict", "", 0, keys, items)

isinstance(v, kind) == v.kind = kind

HasKey(d, k) == \E j \in 1..Len(d.keys) : d.keys[j] = k

KeyIndex(d, k) == CHOOSE j \in 1..Len(d.keys) : d.keys[j] = k

DictGet(d, k) == d.items[KeyIndex(d, k)]

\* d[k] = v on a dict: an existing key keeps its place and takes the new
\* value, a new key goes last
DictSet(d, k, v) ==
    IF HasKey(d, k)
    THEN PyDict(d.keys, [d.items EXCEPT ![KeyIndex(d, k)] = v])
    ELSE PyDict(Append(d.keys, k), Append(d.items, v))

\* the dict without key k
DictWithout(d, k) ==
    LET keep == {j \in 1..Len(d.keys) : d.keys[j] # k}
        RECURSIVE Pick(_, _, _)
        Pick(j, ks, its) ==
            IF j > Len(d.keys) THEN PyDict(ks, its)
            ELSE IF j \in keep
                 THEN Pick(j + 1, Append(ks, d.keys[j]), Append(its, d.items[j]))
                 ELSE Pick(j + 1, ks, its)
    IN Pick(1, <<>>, <<>>)

(* ----------------------------- JSON text ------------------------------ *)

Tok(k, s, n) == [k |-> k, s |-> s, n |-> n]

LBracket == Tok("[", "", 0)
RBracket == Tok("]", "", 0)
LBrace == Tok("{", "", 0)
RBrace == Tok("}", "", 0)
Comma == Tok(",", "", 0)
Colon == Tok(":", "", 0)
NullTok == Tok("null", "", 0)
StrTok(s) == Tok("str", s, 0)
NumTok(n) == Tok("num", "", n)
\* a line break followed by n spaces
Newline(n) == Tok("ws", "\n", n)
\* one space
Space == Tok("ws", " ", 1)

(* json.dump(obj, f, indent=2, ensure_ascii=False): the text written.      *)
(* Strings are written literally (ensure_ascii=False), a non-empty         *)
(* container puts each item on its own line, indented 2 spaces per level,  *)
(* and a key is followed by ": ".                                          *)
RECURSIVE Dump(_, _)
RECURSIVE DumpItems(_, _, _)
RECURSIVE DumpMembers(_, _, _)

DumpItems(v, j, level) ==
    IF j > Len(v.items) THEN <<>>
    ELSE (IF j > 1 THEN <<Comma>> ELSE <<>>)
         \o <<Newline(2 * level)>>
         \o Dump(v.items[j], level)
         \o DumpItems(v, j + 1, level)

DumpMembers(v, j, level) ==
    IF j > Len(v.keys) THEN <<>>
    ELSE (IF j > 1 THEN <<Comma>> ELSE <<>>)
         \o <<Newline(2 * level), StrTok(v.keys[j]), Colon, Space>>
         \o Dump(v.items[j], level)
         \o DumpMembers(v, j + 1, level)

Dump(v, level) ==
    CASE v.kind = "NoneType" -> <<NullTok>>
      [] v.kind = "int" -> <<NumTok(v.n)>>
      [] v.kind = "str" -> <<StrTok(v.s)>>
      [] v.kind = "list" ->
            IF Len(v.items) = 0 THEN <<LBracket, RBracket>>
            ELSE <<LBracket>> \o DumpItems(v, 1, level + 1)
                 \o <<Newline(2 * level), RBracket>>
      [] v.kind = "dict" ->
            IF Len(v.keys) = 0 THEN <<LBrace, RBrace>>
            ELSE <<LBrace>> \o DumpMembers(v, 1, level + 1)
                 \o <<Newline(2 * level), RBrace>>

Dumps(v) == Dump(v, 0)

(* json.load(f): the value parsed from a text, or the decoder's error.     *)
(* White space between tokens is skipped.  A repeated key of an object     *)
(* keeps its first place and takes its last value.                         *)
IsWs(t) == t.k = "ws"

Parsed(v, next) == [ok |-> TRUE, val |-> v, next |-> next, err |-> ""]
ParseError(msg) == [ok |-> FALSE, val |-> PyNone, next |-> 0, err |-> msg]

KindAt(toks, p) == IF p <= Len(toks) THEN toks[p].k ELSE "eof"

RECURSIVE ParseValue(_, _)
RECURSIVE ParseElems(_, _, _)
RECURSIVE ParseMembers(_, _, _)

ParseElems(toks, p, acc) ==
    LET r == ParseValue(toks, p) IN
    IF ~r.ok THEN r
    ELSE IF KindAt(toks, r.next) = ","
         THEN ParseElems(toks, r.next + 1, Append(acc, r.val))
    ELSE IF KindAt(toks, r.next) = "]"
         THEN Parsed(PyList(Append(acc, r.val)), r.next + 1)
    ELSE ParseError("Expecting ',' delimiter")

ParseMembers(toks, p, acc) ==
    IF KindAt(toks, p) # "str"
    THEN ParseError("Expecting property name enclosed in double quotes")
    ELSE IF KindAt(toks, p + 1) # ":"
    THEN ParseError("Expecting ':' delimiter")
    ELSE LET r == ParseValue(toks, p + 2) IN
         IF ~r.ok THEN r
         ELSE LET d == DictSet(acc, toks[p].s, r.val) IN
              IF KindAt(toks, r.next) = ","
              THEN ParseMembers(toks, r.next + 1, d)
              ELSE IF KindAt(toks, r.next) = "}"
              THEN Parsed(d, r.next + 1)
              ELSE ParseError("Expecting ',' delimiter")

ParseValue(toks, p) ==
    LET k == KindAt(toks, p) IN
    CASE k = "str" -> Parsed(PyStr(toks[p].s), p + 1)
      [] k = "num" -> Parsed(PyInt(toks[p].n), p + 1)
      [] k = "null" -> Parsed(PyNone, p + 1)
      [] k = "[" ->
            IF KindAt(toks, p + 1) = "]" THEN Parsed(PyList(<<>>), p + 2)
            ELSE ParseElems(toks, p + 1, <<>>)
      [] k = "{" ->
            IF KindAt(toks, p + 1) = "}" THEN Parsed(PyDict(<<>>, <<>>), p + 2)
            ELSE ParseMembers(toks, p + 1, PyDict(<<>>, <<>>))
      [] OTHER -> ParseError("Expecting value")

Loads(text) ==
    LET toks == SelectSeq(text, LAMBDA t : ~IsWs(t))
        r == ParseValue(toks, 1)
    IN IF ~r.ok THEN r
       ELSE IF r.next # Len(toks) + 1 THEN ParseError("Extra data")
       ELSE r

(* --------------------------- input domain ----------------------------- *)

\* sequences over S of length at most n
SeqsUpTo(S, n) == UNION {[1..m -> S] : m \in 0..n}

\* members an input object may be written with: a plain field and a prior id
Members == {<<"name", StrTok("cat")>>, <<"id", NumTok(99)>>}

RECURSIVE JoinMembers(_, _)
JoinMembers(ms, j) ==
    IF j > Len(ms) THEN <<>>
    ELSE (IF j > 1 THEN <<Comma>> ELSE <<>>)
         \o <<StrTok(ms[j][1]), Colon, ms[j][2]>>
         \o JoinMembers(ms, j + 1)

\* the compact text of an object with the members ms, in that order
ObjectText(ms) == <<LBrace>> \o JoinMembers(ms, 1) \o <<RBrace>>

\* texts of elements that are not mappings: a primitive, null, a nested list
NonMappingTexts ==
    {<<NumTok(7)>>, <<StrTok("cat")>>, <<NullTok>>, <<LBracket, RBracket>>}

ElementTexts ==
    {ObjectText(ms) : ms \in SeqsUpTo(Members, MaxMembers)} \cup NonMappingTexts

RECURSIVE JoinElements(_, _)
JoinElements(es, j) ==
    IF j > Len(es) THEN <<>>
    ELSE (IF j > 1 THEN <<Comma>> ELSE <<>>) \o es[j] \o JoinElements(es, j + 1)

\* the compact text of a list of the elements es
ListText(es) == <<LBracket>> \o JoinElements(es, 1) \o <<RBracket>>

ListTexts == {ListText(es) : es \in SeqsUpTo(ElementTexts, MaxLen)}

\* documents whose root is an object, a number or a string
NonListTexts ==
    {ObjectText(<<<<"name", StrTok("cat")>>>>), <<NumTok(7)>>, <<StrTok("cat")>>}

\* texts json.load rejects: an empty file, a truncated list, trailing data,
\* a member without its colon
InvalidTexts ==
    { <<>>,
      <<LBracket, LBrace, RBrace>>,
      <<LBracket, RBracket, RBracket>>,
      <<LBracket, LBrace, StrTok("name"), StrTok("cat"), RBrace, RBracket>> }

DocumentTexts == ListTexts \cup NonListTexts \cup InvalidTexts

(* ---------------------------- file system ----------------------------- *)

\* main's hardcoded path
InputPath == "src/assets/pictos_list.json"
\* a destination a direct caller may name
OutPath == "out.json"
\* a file the program is never told about
OtherPath == "other.json"

Paths == {InputPath, OutPath, OtherPath}

\* output_file=None
None == "None"

File(text) == [exists |-> TRUE, text |-> text]
NoFile == [exists |-> FALSE, text |-> <<>>]

\* what the other files hold before the call
OldText == <<LBracket, StrTok("old"), RBracket>>

(* ----------------------------- exceptions ----------------------------- *)

Exception(type, msg) == [type |-> type, msg |-> msg]
NoException == Exception("", "")

\* ShapeMessage with another wording
ShapeMessageReworded == "root value is not a list"

\* line 30: the ValueError's message
ShapeMessage == "The JSON file does not contain a list at the root level"

\* the TypeError of picto['id'] = ... on a value that is not a dict
ItemAssignmentError(v) ==
    IF v.kind = "list"
    THEN Exception("TypeError", "list indices must be integers or slices, not str")
    ELSE Exception("TypeError",
                   "'" \o v.kind \o "' object does not support item assignment")

(* ------------------------------- state -------------------------------- *)

VARIABLES
    fs,           \* the files: path -> [exists, text]
    fs0,          \* the files before the run
    readonly,     \* the paths that cannot be opened for writing
    caller,       \* "main": the script runs; "lib": add_ids_to_pictos is called directly
    input_file,   \* add_ids_to_pictos' argument
    dest_arg,     \* the output_file argument as passed (None when omitted)
    output_file,  \* add_ids_to_pictos' local output_file
    pc,           \* the statement about to run
    pictos,       \* the parsed document
    i,            \* the loop's zero-based index
    count,        \* add_ids_to_pictos' return value, -1 before it returns
    raised,       \* the exception add_ids_to_pictos raised, if any
    stdout,       \* the lines printed
    exit_code,    \* main's return value, -1 before it returns
    opened        \* the opens performed, in order: <<path, mode>>

vars == <<fs, fs0, readonly, caller, input_file, dest_arg, output_file, pc,
          pictos, i, count, raised, stdout, exit_code, opened>>

Init ==
    /\ \E text \in DocumentTexts, present \in BOOLEAN :
          fs = [p \in Paths |->
                  IF p = InputPath
                  THEN (IF present THEN File(text) ELSE NoFile)
                  ELSE File(OldText)]
    /\ fs0 = fs
    /\ readonly \in {{}, {InputPath}, {OutPath}}
    /\ \/ /\ caller = "main"
          /\ pc = "main"
          /\ dest_arg = None
       \/ /\ caller = "lib"
          /\ pc = "call"
          /\ dest_arg \in {None, InputPath, OutPath}
    /\ input_file = InputPath
    /\ output_file = None
    /\ pictos = PyNone
    /\ i = 0
    /\ count = -1
    /\ raised = NoException
    /\ stdout = <<>>
    /\ exit_code = -1
    /\ opened = <<>>

(* ------------------------- add_ids_to_pictos -------------------------- *)

\* raise e: the statements that follow do not run
Raise(e) ==
    /\ raised' = e
    /\ pc' = "raised"

\* DefaultOutput with the output_file argument ignored
DefaultOutputIgnoresArgument ==
    /\ pc = "call"
    /\ output_file' = input_file
    /\ pc' = "read"
    /\ UNCHANGED <<fs, fs0, readonly, caller, input_file, dest_arg, pictos, i,
                   count, raised, stdout, exit_code, opened>>

\* lines 21-22: output_file defaults to input_file
DefaultOutput ==
    /\ pc = "call"
    /\ output_file' = IF dest_arg = None THEN input_file ELSE dest_arg
    /\ pc' = "read"
    /\ UNCHANGED <<fs, fs0, readonly, caller, input_file, dest_arg, pictos, i,
                   count, raised, stdout, exit_code, opened>>

\* lines 25-26: open the input for reading and parse it
ReadInput ==
    /\ pc = "read"
    /\ IF ~fs[input_file].exists
       THEN /\ Raise(Exception("FileNotFoundError",
                   "[Errno 2] No such file or directory: '" \o input_file \o "'"))
            /\ UNCHANGED <<pictos, opened>>
       ELSE /\ opened' = Append(opened, <<input_file, "r">>)
            /\ LET r == Loads(fs[input_file].text) IN
               IF r.ok
               THEN /\ pictos' = r.val
                    /\ pc' = "check"
                    /\ UNCHANGED raised
               ELSE /\ Raise(Exception("JSONDecodeError", r.err))
                    /\ UNCHANGED pictos
    /\ UNCHANGED <<fs, fs0, readonly, caller, input_file, dest_arg, output_file,
                   i, count, stdout, exit_code>>

\* CheckList without the isinstance test
CheckListMissing ==
    /\ pc = "check"
    /\ pc' = "loop"
    /\ UNCHANGED <<fs, fs0, readonly, caller, input_file, dest_arg, output_file,
                   pictos, i, count, raised, stdout, exit_code, opened>>

\* lines 29-30: the root must be a list
CheckList ==
    /\ pc = "check"
    /\ IF ~isinstance(pictos, "list")
       THEN Raise(Exception("ValueError", ShapeMessage))
       ELSE /\ pc' = "loop"
            /\ UNCHANGED raised
    /\ UNCHANGED <<fs, fs0, readonly, caller, input_file, dest_arg, output_file,
                   pictos, i, count, stdout, exit_code, opened>>

\* IdFor with ids starting from 0
IdForZeroBased(j) == j

\* the id given to the element at zero-based index j
IdFor(j) == j + 1

\* SetId that replaces the record by one holding only the id
SetIdOnly(picto, j) == PyDict(<<"id">>, <<PyInt(IdFor(j))>>)

\* SetId that keeps an id the record already has
SetIdIfAbsent(picto, j) ==
    IF HasKey(picto, "id") THEN picto
    ELSE DictSet(picto, "id", PyInt(IdFor(j)))

\* line 34: picto['id'] = i + 1
SetId(picto, j) == DictSet(picto, "id", PyInt(IdFor(j)))

\* AnnotateNext that passes over the elements that are not dicts
AnnotateNextSkipping ==
    /\ pc = "loop"
    /\ IF i < Len(pictos.items)
       THEN LET picto == pictos.items[i + 1] IN
            /\ pictos' = IF isinstance(picto, "dict")
                          THEN [pictos EXCEPT !.items[i + 1] = SetId(picto, i)]
                          ELSE pictos
            /\ i' = i + 1
            /\ UNCHANGED <<pc, raised>>
       ELSE /\ pc' = "open_w"
            /\ UNCHANGED <<pictos, i, raised>>
    /\ UNCHANGED <<fs, fs0, readonly, caller, input_file, dest_arg, output_file,
                   count, stdout, exit_code, opened>>

\* lines 33-34: one iteration of the loop, or its end
AnnotateNext ==
    /\ pc = "loop"
    /\ IF i < Len(pictos.items)
       THEN LET picto == pictos.items[i + 1] IN
            IF isinstance(picto, "dict")
            THEN /\ pictos' = [pictos EXCEPT !.items[i + 1] = SetId(picto, i)]
                 /\ i' = i + 1
                 /\ UNCHANGED <<pc, raised>>
            ELSE /\ Raise(ItemAssignmentError(picto))
                 /\ UNCHANGED <<pictos, i>>
       ELSE /\ pc' = "open_w"
            /\ UNCHANGED <<pictos, i, raised>>
    /\ UNCHANGED <<fs, fs0, readonly, caller, input_file, dest_arg, output_file,
                   count, stdout, exit_code, opened>>

\* line 37: open the output for writing, which creates or empties it
OpenOutput ==
    /\ pc = "open_w"
    /\ IF output_file \in readonly
       THEN /\ Raise(Exception("PermissionError",
                   "[Errno 13] Permission denied: '" \o output_file \o "'"))
            /\ UNCHANGED <<fs, opened>>
       ELSE /\ fs' = [fs EXCEPT ![output_file] = File(<<>>)]
            /\ opened' = Append(opened, <<output_file, "w">>)
            /\ pc' = "dump"
            /\ UNCHANGED raised
    /\ UNCHANGED <<fs0, readonly, caller, input_file, dest_arg, output_file,
                   pictos, i, count, stdout, exit_code>>

\* line 38: json.dump(pictos, f, indent=2, ensure_ascii=False)
WriteOutput ==
    /\ pc = "dump"
    /\ fs' = [fs EXCEPT ![output_file] = File(Dumps(pictos))]
    /\ pc' = "return"
    /\ UNCHANGED <<fs0, readonly, caller, input_file, dest_arg, output_file,
                   pictos, i, count, raised, stdout, exit_code, opened>>

\* CountOf that is one short
CountOfOneShort(p) == Len(p.items) - 1

\* the value of len(pictos)
CountOf(p) == Len(p.items)

\* line 40: return len(pictos)
ReturnCount ==
    /\ pc = "return"
    /\ count' = CountOf(pictos)
    /\ pc' = IF caller = "main" THEN "report" ELSE "returned"
    /\ UNCHANGED <<fs, fs0, readonly, caller, input_file, dest_arg, output_file,
                   pictos, i, raised, stdout, exit_code, opened>>

(* -------------------------------- main -------------------------------- *)

\* line 48: the line printed for a missing input
NotFoundLine(path) == "Error: Input file '" \o path \o "' not found."

\* MainCheckExists without the os.path.exists test
MainCheckExistsMissing ==
    /\ pc = "main"
    /\ pc' = "call"
    /\ UNCHANGED <<fs, fs0, readonly, caller, input_file, dest_arg, output_file,
                   pictos, i, count, raised, stdout, exit_code, opened>>

\* lines 47-49: the input must exist; line 53 otherwise
MainCheckExists ==
    /\ pc = "main"
    /\ IF ~fs[input_file].exists
       THEN /\ stdout' = Append(stdout, NotFoundLine(input_file))
            /\ exit_code' = 1
            /\ pc' = "exit"
       ELSE /\ pc' = "call"
            /\ UNCHANGED <<stdout, exit_code>>
    /\ UNCHANGED <<fs, fs0, readonly, caller, input_file, dest_arg, output_file,
                   pictos, i, count, raised, opened>>

\* line 54: the line printed on success
SuccessLine(n, path) ==
    "Successfully added IDs to " \o ToString(n) \o " pictos in '" \o path \o "'."

\* lines 54-55: report the count, return 0
MainSuccess ==
    /\ pc = "report"
    /\ stdout' = Append(stdout, SuccessLine(count, input_file))
    /\ exit_code' = 0
    /\ pc' = "exit"
    /\ UNCHANGED <<fs, fs0, readonly, caller, input_file, dest_arg, output_file,
                   pictos, i, count, raised, opened>>

\* line 57: the line printed for the exception e
ErrorLine(e) == "Error: " \o e.msg

\* MainExcept that catches ValueError only
MainExceptValueErrorOnly ==
    /\ pc = "raised"
    /\ caller = "main"
    /\ raised.type = "ValueError"
    /\ stdout' = Append(stdout, ErrorLine(raised))
    /\ exit_code' = 1
    /\ pc' = "exit"
    /\ UNCHANGED <<fs, fs0, readonly, caller, input_file, dest_arg, output_file,
                   pictos, i, count, raised, opened>>

\* lines 56-58: any exception is reported, return 1
MainExcept ==
    /\ pc = "raised"
    /\ caller = "main"
    /\ stdout' = Append(stdout, ErrorLine(raised))
    /\ exit_code' = 1
    /\ pc' = "exit"
    /\ UNCHANGED <<fs, fs0, readonly, caller, input_file, dest_arg, output_file,
                   pictos, i, count, raised, opened>>

Next ==
    \/ MainCheckExists
    \/ DefaultOutput
    \/ ReadInput
    \/ CheckList
    \/ AnnotateNext
    \/ OpenOutput
    \/ WriteOutput
    \/ ReturnCount
    \/ MainSuccess
    \/ MainExcept

Spec == Init /\ [][Next]_vars

(* ------------------------------ claims -------------------------------- *)

\* what json.load makes of the input file as it was before the run
InputLoaded == Loads(fs0[input_file].text)

\* the input file exists and holds a JSON document
InputParses == fs0[input_file].exists /\ InputLoaded.ok

\* the input document's root is an object, a number or a string
NonListRoot ==
    /\ fs0[input_file].exists
    /\ LET r == InputLoaded IN r.ok /\ r.val.kind # "list"

\* the input document's root is a list with an element that is not a mapping
ListWithNonMapping ==
    /\ fs0[input_file].exists
    /\ LET r == InputLoaded IN
       /\ r.ok
       /\ r.val.kind = "list"
       /\ \E j \in 1..Len(r.val.items) : r.val.items[j].kind # "dict"

\* the elements of the input document
InputItems == InputLoaded.val.items

\* add_ids_to_pictos has returned
Succeeded == pc \in {"returned", "report"} \/ (pc = "exit" /\ exit_code = 0)

\* add_ids_to_pictos has ended with an exception
Failed == pc = "raised" \/ (pc = "exit" /\ raised # NoException)

\* what json.load makes of the output file as it is now
Written == Loads(fs[output_file].text)

\* no file was opened for writing and every file is as it was
NothingWritten ==
    /\ fs = fs0
    /\ \A k \in 1..Len(opened) : opened[k][2] # "w"

\* the number of entries of the dict d under the key k
KeyCount(d, k) == Cardinality({j \in 1..Len(d.keys) : d.keys[j] = k})

\* C1: after add_ids_to_pictos succeeds on a list of N mappings, the written
\* document is a list of N mappings whose element at zero-based position
\* j - 1 has id = j, so the ids are distinct and are exactly 1..N
C1_IdsMatchPositions ==
    Succeeded =>
        LET before == InputItems
            w == Written
            N == Len(before)
        IN /\ w.ok
           /\ w.val.kind = "list"
           /\ Len(w.val.items) = N
           /\ \A j \in 1..N :
                 /\ w.val.items[j].kind = "dict"
                 /\ HasKey(w.val.items[j], "id")
                 /\ DictGet(w.val.items[j], "id") = PyInt(j)
           /\ \A j, k \in 1..N :
                 j # k => DictGet(w.val.items[j], "id")
                           # DictGet(w.val.items[k], "id")
           /\ {DictGet(w.val.items[j], "id").n : j \in 1..N} = 1..N

\* a run that succeeded on a list of at least two mappings
C1_Witness ==
    /\ Succeeded
    /\ Len(InputItems) >= 2
    /\ DictGet(Written.val.items[2], "id") = PyInt(2)

\* C2: the written document has the input's length and, at every position,
\* the input's record: the same keys other than id, in the same order, with
\* the same values
C2_RecordsPreserved ==
    Succeeded =>
        LET before == InputItems
            w == Written
        IN /\ w.ok
           /\ Len(w.val.items) = Len(before)
           /\ \A j \in 1..Len(before) :
                 DictWithout(w.val.items[j], "id") = DictWithout(before[j], "id")

\* a run that succeeded on two different records, the first with a field
\* other than id
C2_Witness ==
    /\ Succeeded
    /\ Len(InputItems) >= 2
    /\ DictWithout(InputItems[1], "id") # DictWithout(InputItems[2], "id")
    /\ HasKey(InputItems[1], "name")
    /\ HasKey(Written.val.items[1], "name")

\* C3: when the root is not a list, add_ids_to_pictos raises the shape
\* error (a ValueError) before the output is opened: it never reaches the
\* loop or the write, and every file keeps its content
C3_NonListRejectedUnwritten ==
    (pc \notin {"main", "call", "read", "check"} /\ NonListRoot) =>
        /\ Failed
        /\ raised.type = "ValueError"
        /\ count = -1
        /\ NothingWritten
        /\ opened = <<<<input_file, "r">>>>

\* a direct call with a destination, on a root that is not a list, has failed
C3_Witness ==
    /\ NonListRoot
    /\ caller = "lib"
    /\ dest_arg = OutPath
    /\ pc = "raised"
    /\ fs[OutPath] = File(OldText)

\* C4: on success the count returned is the length of the input list; for
\* the empty list it is 0 and the written document is the empty list
C4_CountIsLength ==
    Succeeded =>
        LET N == Len(InputItems) IN
        /\ count = N
        /\ N = 0 =>
              /\ count = 0
              /\ Written.ok
              /\ Written.val = PyList(<<>>)

\* a run that succeeded on the empty list
C4_Witness ==
    /\ Succeeded
    /\ InputItems = <<>>
    /\ count = 0
    /\ fs[output_file].text = <<LBracket, RBracket>>

\* C5: a record that came with an id is written with the id of its position
\* and no other id entry, whatever the id it came with
C5_PriorIdReplaced ==
    Succeeded =>
        LET before == InputItems
            w == Written
        IN \A j \in 1..Len(before) :
              HasKey(before[j], "id") =>
                  /\ DictGet(w.val.items[j], "id") = PyInt(j)
                  /\ KeyCount(w.val.items[j], "id") = 1

\* a run that succeeded on a record whose prior id was not its position
C5_Witness ==
    /\ Succeeded
    /\ \E j \in 1..Len(InputItems) :
          /\ HasKey(InputItems[j], "id")
          /\ DictGet(InputItems[j], "id") # PyInt(j)
          /\ DictGet(Written.val.items[j], "id") = PyInt(j)

\* C6: when main's input path does not exist, main prints the not-found line
\* and returns 1; add_ids_to_pictos is not entered, no file is opened and
\* every file is as it was
C6_MissingInputNotProcessed ==
    (caller = "main" /\ ~fs0[InputPath].exists) =>
        /\ pc \in {"main", "exit"}
        /\ pc = "exit" =>
              /\ exit_code = 1
              /\ stdout = <<NotFoundLine(InputPath)>>
        /\ output_file = None
        /\ raised = NoException
        /\ count = -1
        /\ opened = <<>>
        /\ fs = fs0

\* main has returned on a missing input
C6_Witness ==
    /\ caller = "main"
    /\ ~fs0[InputPath].exists
    /\ pc = "exit"
    /\ exit_code = 1

\* the one line printed starts with "Error:"
OneErrorLine ==
    /\ Len(stdout) = 1
    /\ Len(stdout[1]) >= 6
    /\ SubSeq(stdout[1], 1, 6) = "Error:"

\* C7: main returns 0 exactly when the input exists and add_ids_to_pictos
\* returned, and 1 otherwise, after one line starting with "Error:"; an
\* exception raised under main, whatever its type, is caught by main
C7_ExitStatus ==
    caller = "main" =>
        /\ pc = "raised" => ENABLED MainExcept
        /\ pc = "exit" =>
              /\ exit_code \in {0, 1}
              /\ exit_code = 0 <=> (fs0[InputPath].exists /\ count >= 0)
              /\ exit_code = 0 <=> (fs0[InputPath].exists /\ raised = NoException)
              /\ exit_code = 1 => OneErrorLine

\* main has returned 1 on a destination that could not be opened
C7_Witness ==
    /\ caller = "main"
    /\ pc = "exit"
    /\ exit_code = 1
    /\ raised.type = "PermissionError"
    /\ OneErrorLine

\* C8 as stated: the shape error, and the line the driver prints for it,
\* carry the message "root value is not a list"
C8_MessageAsStated ==
    (Failed /\ NonListRoot) =>
        /\ raised.msg = "root value is not a list"
        /\ (caller = "main" /\ pc = "exit") =>
              stdout = <<"Error: root value is not a list">>

\* C8 amended: the shape error carries the message "The JSON file does not
\* contain a list at the root level", and the driver prints it after "Error: "
C8_MessageOfCode ==
    (Failed /\ NonListRoot) =>
        /\ raised.type = "ValueError"
        /\ raised.msg = "The JSON file does not contain a list at the root level"
        /\ (caller = "main" /\ pc = "exit") =>
              stdout = <<"Error: The JSON file does not contain a list at the root level">>

\* the driver has reported the shape error
C8_Witness ==
    /\ NonListRoot
    /\ caller = "main"
    /\ pc = "exit"
    /\ exit_code = 1
    /\ Len(stdout) = 1

\* the position of the first of the elements items that is not a mapping
FirstNonMapping(items) ==
    CHOOSE j \in 1..Len(items) :
        /\ items[j].kind # "dict"
        /\ \A k \in 1..(j - 1) : items[k].kind = "dict"

\* C9: when the root is a list with an element that is not a mapping, the
\* loop raises a TypeError at the first such element, wherever it is; the
\* output is never opened and every file keeps its content
C9_NonMappingFailsUnwritten ==
    ListWithNonMapping =>
        /\ pc \notin {"open_w", "dump", "return", "returned", "report"}
        /\ exit_code # 0
        /\ count = -1
        /\ NothingWritten
        /\ Failed =>
              /\ raised.type = "TypeError"
              /\ i = FirstNonMapping(InputItems) - 1

\* an in-place run has failed at the second element, after the first record
\* was given its id in memory
C9_Witness ==
    /\ ListWithNonMapping
    /\ FirstNonMapping(InputItems) = 2
    /\ pc = "raised"
    /\ output_file = input_file
    /\ DictGet(pictos.items[1], "id") = PyInt(1)
    /\ fs[input_file] = fs0[input_file]

\* the opens for writing, in order
WriteOpens == SelectSeq(opened, LAMBDA o : o[2] = "w")

\* C10: on success exactly one file was opened for writing and changed: the
\* input file when no destination was given, else the destination, which
\* then holds the dump of the annotated document and nothing of its previous
\* content; every other file, the input included, keeps its content
C10_OneFileWritten ==
    Succeeded =>
        /\ output_file = (IF dest_arg = None THEN input_file ELSE dest_arg)
        /\ WriteOpens = <<<<output_file, "w">>>>
        /\ fs[output_file] = File(Dumps(pictos))
        /\ \A p \in Paths \ {output_file} : fs[p] = fs0[p]
        /\ dest_arg = OutPath =>
              /\ fs[InputPath] = fs0[InputPath]
              /\ fs[OutPath] # fs0[OutPath]

\* a direct call with a destination other than the input has succeeded
C10_Witness ==
    /\ Succeeded
    /\ dest_arg = OutPath
    /\ Len(InputItems) >= 1
    /\ fs[InputPath] = fs0[InputPath]
    /\ fs[OutPath] # File(OldText)

====
